---------------------------- MODULE Spec2Model ----------------------------
(***************************************************************************)
(* Model of the social-media JSON uploader (src/upload_app.py) and of the  *)
(* app text embedded in its generator (src/generate_upload_app.py).        *)
(*                                                                         *)
(* A key is a sequence of code points.  An ASCII code point is written as  *)
(* itself ("a", ":", " "), any other one as "U+XXXX".  A JSON value is a   *)
(* pair <<kind, val>>: <<"str", s>>, <<"num", n>>, <<"list", <<v1, ..>>>>  *)
(* or <<"dict", <<<<k1, v1>>, ..>>>> with the items in insertion order and *)
(* the keys pairwise distinct, as json.loads builds a Python dict.         *)
(***************************************************************************)
EXTENDS Integers, Sequences, FiniteSets, TLC

VARIABLES
    eng_key,      \* sanitize_key: the raw key k of the last call
    eng_sk,       \* sanitize_key(k)
    eng_sk2,      \* sanitize_key(sanitize_key(k)), once it was asked for
    eng_call,     \* the engine function applied last
    eng_obj,      \* extract_keys, anonymize: the JSON value passed
    eng_pii,      \* anonymize: the sensitive set passed
    eng_keys,     \* extract_keys(obj)
    eng_red,      \* anonymize(obj, pii_set)
    session_state,  \* upload_app: st.session_state of each session
    widget,         \* upload_app: the widget values of each session
    shown,          \* upload_app: what the page of each session shows
    run,            \* upload_app: where a session's script run stands
    drive_folders,  \* Google Drive: the folders under ROOT_FOLDER_ID
    drive_files,    \* Google Drive: the files created
    drive_failures, \* Google Drive: the calls that raised so far
    gen_widget,     \* generated app: the widget values of the session
    gen_shown,      \* generated app: what the page shows
    gen_disk        \* generated app: the files under uploads/

(***************************************************************************)
(* Python's str and re, as far as the code uses them.                      *)
(***************************************************************************)
Lowers == <<"a","b","c","d","e","f","g","h","i","j","k","l","m",
            "n","o","p","q","r","s","t","u","v","w","x","y","z">>

Uppers == <<"A","B","C","D","E","F","G","H","I","J","K","L","M",
            "N","O","P","Q","R","S","T","U","V","W","X","Y","Z">>

Range(s) == {s[i] : i \in 1..Len(s)}

IndexOf(s, c) == CHOOSE i \in 1..Len(s) : s[i] = c

\* U+0130 LATIN CAPITAL LETTER I WITH DOT ABOVE, U+0307 COMBINING DOT ABOVE,
\* U+000A LINE FEED, U+0663 ARABIC-INDIC DIGIT THREE.
LowerSet == Range(Lowers)

UpperSet == Range(Uppers)

CasedSet == LowerSet \cup UpperSet \cup {"U+0130"}

\* Uppers[i] |-> Lowers[i], and the other way round.
LowerOf == [c \in UpperSet |-> Lowers[IndexOf(Uppers, c)]]

UpperOf == [c \in LowerSet |-> Uppers[IndexOf(Lowers, c)]]

IsCased(c) == c \in CasedSet

ToLowerSimple(c) ==
    IF c \in UpperSet THEN <<LowerOf[c]>>
    ELSE IF c = "U+0130" THEN <<"i">>
    ELSE <<c>>

\* The lower-case mapping str.title applies inside a word (full mapping:
\* U+0130 lowers to the two code points "i", U+0307).
ToLowerFull(c) ==
    IF c \in UpperSet THEN <<LowerOf[c]>>
    ELSE IF c = "U+0130" THEN <<"i", "U+0307">>
    ELSE <<c>>

\* The title-case mapping str.title applies at the start of a word.
ToTitleFull(c) ==
    IF c \in LowerSet THEN <<UpperOf[c]>> ELSE <<c>>

\* The simple lower-case mapping re.IGNORECASE compares with.
SimpleLower(c) ==
    IF c \in UpperSet THEN LowerOf[c]
    ELSE IF c = "U+0130" THEN "i"
    ELSE c

RECURSIVE TitleFrom(_, _, _)
TitleFrom(s, i, previous_is_cased) ==
    IF i > Len(s) THEN <<>>
    ELSE (IF previous_is_cased THEN ToLowerFull(s[i]) ELSE ToTitleFull(s[i]))
         \o TitleFrom(s, i + 1, IsCased(s[i]))

\* str.title(): a letter that follows a cased code point is lowered, any
\* other letter is title-cased.
title(s) == TitleFrom(s, 1, FALSE)

\* k.split(':', 1)[0]: the part of k before its first colon (all of k when
\* it has none).
split_colon(s) ==
    IF \E i \in 1..Len(s) : s[i] = ":"
    THEN SubSeq(s, 1, (CHOOSE i \in 1..Len(s) :
                          s[i] = ":" /\ \A j \in 1..(i - 1) : s[j] # ":") - 1)
    ELSE s

rstrip_one_colon(s) ==
    IF Len(s) > 0 /\ s[Len(s)] = ":" THEN SubSeq(s, 1, Len(s) - 1) ELSE s

\* k.rstrip(':'): k without any of its trailing colons.
rstrip_colon(s) ==
    SubSeq(s, 1, CHOOSE n \in 0..Len(s) :
                    /\ \A j \in (n + 1)..Len(s) : s[j] = ":"
                    /\ (n > 0 => s[n] # ":"))

DigitChars == {"0","1","2","3","4","5","6","7","8","9","U+0663"}

\* str.isdigit(): non-empty and every code point is a digit (Unicode ones
\* included).
isdigit(s) == Len(s) > 0 /\ \A i \in 1..Len(s) : s[i] \in DigitChars

(***************************************************************************)
(* KEY_PATTERNS.  Each pattern is a literal, an optional code point        *)
(* (the "s?"), a separator literal and the least number of "." the tail    *)
(* needs: ".+" needs one, ".*" none.  "." matches anything but U+000A.     *)
(***************************************************************************)
KEY_PATTERNS ==
    << [lit |-> <<"C","h","a","t"," ","H","i","s","t","o","r","y"," ","w","i","t","h"," ">>,
        opt |-> <<>>, sep |-> <<>>, dots |-> 1],
       [lit |-> <<"c","o","m","m","e","n","t">>, opt |-> <<"s">>, sep |-> <<":">>, dots |-> 0],
       [lit |-> <<"r","e","p","l","i","e">>, opt |-> <<"s">>, sep |-> <<":">>, dots |-> 0],
       [lit |-> <<"p","o","s","t">>, opt |-> <<"s">>, sep |-> <<":">>, dots |-> 0],
       [lit |-> <<"s","t","o","r","y">>, opt |-> <<>>, sep |-> <<":">>, dots |-> 0] >>

\* The literal p occurs in k from position 1, compared as re.IGNORECASE does.
PrefixIgnoreCase(p, k) ==
    /\ Len(p) <= Len(k)
    /\ \A i \in 1..Len(p) : SimpleLower(p[i]) = SimpleLower(k[i])

DotsAt(k, pos, n) ==
    \A i \in pos..(pos + n - 1) : i <= Len(k) /\ k[i] # "U+000A"

re_match_optional_colon(pat, k) ==
    \E o \in {<<>>, pat.opt} :
        /\ PrefixIgnoreCase(pat.lit \o o, k)
        /\ DotsAt(k, Len(pat.lit \o o) + 1, pat.dots)

\* re.match(pat, k, flags=re.IGNORECASE): the pattern matches a prefix of k.
re_match(pat, k) ==
    \E o \in {<<>>, pat.opt} :
        /\ PrefixIgnoreCase(pat.lit \o o \o pat.sep, k)
        /\ DotsAt(k, Len(pat.lit \o o \o pat.sep) + 1, pat.dots)

sanitize_key(k) ==
    IF \E i \in 1..Len(KEY_PATTERNS) : re_match(KEY_PATTERNS[i], k)
    THEN title(split_colon(k))
    ELSE rstrip_colon(k)

(***************************************************************************)
(* JSON values, as json.loads returns them.                                *)
(***************************************************************************)
Str(s) == <<"str", s>>

Num(n) == <<"num", n>>

List(elems) == <<"list", elems>>

Dict(items) == <<"dict", items>>

IsDict(v) == v[1] = "dict"

IsList(v) == v[1] = "list"

REDACTED == Str("REDACTED")

\* d[k] = v on a Python dict: a key already present keeps its position and
\* takes the new value, a new key goes last.
dict_set(items, k, v) ==
    IF \E i \in 1..Len(items) : items[i][1] = k
    THEN [i \in 1..Len(items) |-> IF items[i][1] = k THEN <<k, v>> ELSE items[i]]
    ELSE Append(items, <<k, v>>)

RECURSIVE dict_of(_, _)
\* The dict a comprehension builds from the first n (key, value) pairs.
dict_of(pairs, n) ==
    IF n = 0 THEN <<>>
    ELSE dict_set(dict_of(pairs, n - 1), pairs[n][1], pairs[n][2])

RECURSIVE extract_keys(_)
extract_keys_stop_at_numeric(obj) ==
    IF IsDict(obj)
    THEN UNION { IF isdigit(sanitize_key(obj[2][i][1]))
                 THEN {}
                 ELSE {sanitize_key(obj[2][i][1])} \cup extract_keys(obj[2][i][2])
                 : i \in 1..Len(obj[2]) }
    ELSE IF IsList(obj)
    THEN UNION { extract_keys(obj[2][i]) : i \in 1..Len(obj[2]) }
    ELSE {}

extract_keys(obj) ==
    IF IsDict(obj)
    THEN UNION { (IF isdigit(sanitize_key(obj[2][i][1]))
                  THEN {} ELSE {sanitize_key(obj[2][i][1])})
                 \cup extract_keys(obj[2][i][2]) : i \in 1..Len(obj[2]) }
    ELSE IF IsList(obj)
    THEN UNION { extract_keys(obj[2][i]) : i \in 1..Len(obj[2]) }
    ELSE {}

RECURSIVE anonymize(_, _)
anonymize_scalars_only(obj, pii_set) ==
    IF IsDict(obj)
    THEN Dict(dict_of(
            [i \in 1..Len(obj[2]) |->
                <<sanitize_key(obj[2][i][1]),
                  IF /\ sanitize_key(obj[2][i][1]) \in pii_set
                     /\ ~IsDict(obj[2][i][2]) /\ ~IsList(obj[2][i][2])
                  THEN REDACTED
                  ELSE anonymize(obj[2][i][2], pii_set)>>],
            Len(obj[2])))
    ELSE IF IsList(obj)
    THEN List([i \in 1..Len(obj[2]) |-> anonymize(obj[2][i], pii_set)])
    ELSE obj

anonymize_skip_lists(obj, pii_set) ==
    IF IsDict(obj)
    THEN Dict(dict_of(
            [i \in 1..Len(obj[2]) |->
                <<sanitize_key(obj[2][i][1]),
                  IF sanitize_key(obj[2][i][1]) \in pii_set
                  THEN REDACTED
                  ELSE anonymize(obj[2][i][2], pii_set)>>],
            Len(obj[2])))
    ELSE obj

anonymize(obj, pii_set) ==
    IF IsDict(obj)
    THEN Dict(dict_of(
            [i \in 1..Len(obj[2]) |->
                <<sanitize_key(obj[2][i][1]),
                  IF sanitize_key(obj[2][i][1]) \in pii_set
                  THEN REDACTED
                  ELSE anonymize(obj[2][i][2], pii_set)>>],
            Len(obj[2])))
    ELSE IF IsList(obj)
    THEN List([i \in 1..Len(obj[2]) |-> anonymize(obj[2][i], pii_set)])
    ELSE obj

(***************************************************************************)
(* upload_app.py: sessions, uploads and Google Drive.                      *)
(***************************************************************************)
COMMON_PII ==
    { <<"i","d">>,
      <<"u","u","i","d">>,
      <<"n","a","m","e">>,
      <<"f","u","l","l","_","n","a","m","e">>,
      <<"u","s","e","r","n","a","m","e">>,
      <<"u","s","e","r","N","a","m","e">>,
      <<"e","m","a","i","l">>,
      <<"e","m","a","i","l","A","d","d","r","e","s","s">>,
      <<"p","h","o","n","e">>,
      <<"p","h","o","n","e","_","n","u","m","b","e","r">>,
      <<"t","e","l","e","p","h","o","n","e","N","u","m","b","e","r">>,
      <<"b","i","r","t","h","D","a","t","e">>,
      <<"d","a","t","e","_","o","f","_","b","i","r","t","h">>,
      <<"d","e","v","i","c","e","_","i","d">>,
      <<"d","e","v","i","c","e","M","o","d","e","l">>,
      <<"o","s","_","v","e","r","s","i","o","n">>,
      <<"l","o","c","a","t","i","o","n">>,
      <<"h","o","m","e","t","o","w","n">>,
      <<"c","u","r","r","e","n","t","_","c","i","t","y">>,
      <<"e","x","t","e","r","n","a","l","_","u","r","l">>,
      <<"c","r","e","a","t","e","d","_","a","t">>,
      <<"r","e","g","i","s","t","r","a","t","i","o","n","_","t","i","m","e">> }

PLATFORMS ==
    [ TikTok |->
        { <<"u","i","d">>,
          <<"u","n","i","q","u","e","_","i","d">>,
          <<"n","i","c","k","n","a","m","e">>,
          <<"p","r","o","f","i","l","e","P","h","o","t","o">>,
          <<"p","r","o","f","i","l","e","V","i","d","e","o">>,
          <<"b","i","o","D","e","s","c","r","i","p","t","i","o","n">>,
          <<"l","i","k","e","s","R","e","c","e","i","v","e","d">>,
          <<"F","r","o","m">>,
          <<"C","o","n","t","e","n","t">>,
          <<"e","m","a","i","l">>,
          <<"p","h","o","n","e","_","n","u","m","b","e","r">>,
          <<"d","a","t","e","_","o","f","_","b","i","r","t","h">> },
      Instagram |->
        { <<"u","s","e","r","n","a","m","e">>,
          <<"f","u","l","l","_","n","a","m","e">>,
          <<"b","i","o","g","r","a","p","h","y">>,
          <<"p","r","o","f","i","l","e","_","p","i","c","t","u","r","e">>,
          <<"e","m","a","i","l">>,
          <<"p","h","o","n","e","_","n","u","m","b","e","r">>,
          <<"g","e","n","d","e","r">>,
          <<"b","i","r","t","h","d","a","y">>,
          <<"e","x","t","e","r","n","a","l","_","u","r","l">>,
          <<"a","c","c","o","u","n","t","_","c","r","e","a","t","i","o","n","_","d","a","t","e">> },
      Facebook |->
        { <<"n","a","m","e">>,
          <<"b","i","r","t","h","d","a","y">>,
          <<"g","e","n","d","e","r">>,
          <<"r","e","l","a","t","i","o","n","s","h","i","p","_","s","t","a","t","u","s">>,
          <<"h","o","m","e","t","o","w","n">>,
          <<"c","u","r","r","e","n","t","_","c","i","t","y">>,
          <<"e","m","a","i","l","s">>,
          <<"p","h","o","n","e","s">>,
          <<"f","r","i","e","n","d","_","c","o","u","n","t">>,
          <<"f","r","i","e","n","d","s">>,
          <<"p","o","s","t","s">>,
          <<"s","t","o","r","y">>,
          <<"c","o","m","m","e","n","t","s">>,
          <<"l","i","k","e","s">> },
      Twitter |->
        { <<"a","c","c","o","u","n","t","I","d">>,
          <<"u","s","e","r","n","a","m","e">>,
          <<"a","c","c","o","u","n","t","D","i","s","p","l","a","y","N","a","m","e">>,
          <<"d","e","s","c","r","i","p","t","i","o","n">>,
          <<"w","e","b","s","i","t","e">>,
          <<"l","o","c","a","t","i","o","n">>,
          <<"a","v","a","t","a","r","M","e","d","i","a","U","r","l">>,
          <<"h","e","a","d","e","r","M","e","d","i","a","U","r","l">>,
          <<"e","m","a","i","l">>,
          <<"i","n","_","r","e","p","l","y","_","t","o","_","u","s","e","r","_","i","d">>,
          <<"s","o","u","r","c","e">>,
          <<"r","e","t","w","e","e","t","_","c","o","u","n","t">>,
          <<"f","a","v","o","r","i","t","e","_","c","o","u","n","t">> },
      Reddit |->
        { <<"u","s","e","r","n","a","m","e">>,
          <<"e","m","a","i","l">>,
          <<"k","a","r","m","a">>,
          <<"s","u","b","r","e","d","d","i","t">>,
          <<"a","u","t","h","o","r">>,
          <<"b","o","d","y">>,
          <<"s","e","l","f","t","e","x","t">>,
          <<"p","o","s","t","_","i","d">>,
          <<"t","i","t","l","e">>,
          <<"c","r","e","a","t","e","d","_","u","t","c">>,
          <<"i","p","_","a","d","d","r","e","s","s">> } ]


\* One Streamlit session per browser tab; user_id is uuid4().hex[:8], taken
\* to differ between sessions and written as the session's own name.
Sessions == {"s1", "s2"}

user_id == [s \in Sessions |-> s]

\* The platforms the users pick in the selectbox.
PlatformsTried == {"TikTok", "Facebook"}

\* Uploaded bytes: <<"json", v>> is text json.loads parses to v; <<"ndjson",
\* <<v1, ..>>>> is text that is no JSON document but has one JSON value per
\* non-blank line; <<"garbage">> is text neither parse accepts.
NoFile == [name |-> "", bytes |-> <<"none">>]

UploadFiles ==
    { [name |-> "a.json",
       bytes |-> <<"json", Dict(<< <<<<"l","i","k","e","s">>, Num(3)>>,
                                   <<<<"b","i","o",":">>, Str("hi")>> >>)>>],
      [name |-> "b.json",
       bytes |-> <<"ndjson", << Dict(<< <<<<"F","r","o","m">>, Str("x")>> >>),
                                Dict(<< <<<<"i","d">>, Num(1)>> >>) >> >>],
      [name |-> "c.json", bytes |-> <<"garbage">>] }

\* Whether lines 144-151 get a document out of the bytes (else the second
\* json.loads raises and the run ends there).
Parses(bytes) == bytes[1] \in {"json", "ndjson"}

\* data of lines 148-151.
Parse(bytes) == IF bytes[1] = "json" THEN bytes[2] ELSE List(bytes[2])

\* json.dumps(red, indent=2)
Dumps(v) == <<"json_indent2", v>>

MaxExtras == 1

MaxDriveFailures == 1

ROOT_FOLDER_ID == <<>>

\* A folder is written as its path from the root: the <<name, creator>> of
\* each folder on the way.  Drive gives every created folder a fresh id, so
\* folders of one name under one parent differ by their creator.
FolderParent(f) == SubSeq(f, 1, Len(f) - 1)

FolderName(f) == f[Len(f)][1]

NoRun == [pc |-> "idle", level |-> 0, parent |-> ROOT_FOLDER_ID]

\* get_pii_sets() of the generated app: COMMON.
COMMON ==
    { <<"u","s","e","r","n","a","m","e">>,
      <<"u","s","e","r","N","a","m","e">>,
      <<"e","m","a","i","l">>,
      <<"e","m","a","i","l","A","d","d","r","e","s","s">>,
      <<"i","d">>,
      <<"n","a","m","e">>,
      <<"f","u","l","l","_","n","a","m","e">>,
      <<"t","e","l","e","p","h","o","n","e","N","u","m","b","e","r">>,
      <<"b","i","r","t","h","D","a","t","e">> }

\* get_pii_sets() of the generated app: PLATFORM.
PLATFORM ==
    [ TikTok |->
        { <<"p","r","o","f","i","l","e","P","h","o","t","o">>,
          <<"p","r","o","f","i","l","e","V","i","d","e","o">>,
          <<"b","i","o","D","e","s","c","r","i","p","t","i","o","n">>,
          <<"l","i","k","e","s","R","e","c","e","i","v","e","d">>,
          <<"F","r","o","m">>,
          <<"C","o","n","t","e","n","t">> },
      Instagram |->
        { <<"b","i","o","g","r","a","p","h","y">>,
          <<"f","o","l","l","o","w","e","r","s","_","c","o","u","n","t">>,
          <<"f","o","l","l","o","w","i","n","g","_","c","o","u","n","t">>,
          <<"m","e","d","i","a","_","c","o","u","n","t">>,
          <<"p","r","o","f","i","l","e","_","p","i","c","t","u","r","e">> },
      Facebook |->
        { <<"f","r","i","e","n","d","_","c","o","u","n","t">>,
          <<"f","r","i","e","n","d","s">>,
          <<"p","o","s","t","s">>,
          <<"s","t","o","r","y">>,
          <<"c","o","m","m","e","n","t","s">>,
          <<"l","i","k","e","s">> },
      Twitter |->
        { <<"c","r","e","a","t","e","d","_","a","t">>,
          <<"t","e","x","t">>,
          <<"s","o","u","r","c","e">>,
          <<"i","n","_","r","e","p","l","y","_","t","o","_","s","t","a","t","u","s","_","i","d">>,
          <<"i","n","_","r","e","p","l","y","_","t","o","_","u","s","e","r","_","i","d">>,
          <<"r","e","t","w","e","e","t","_","c","o","u","n","t">>,
          <<"f","a","v","o","r","i","t","e","_","c","o","u","n","t">> },
      Reddit |->
        { <<"s","u","b","r","e","d","d","i","t">>,
          <<"a","u","t","h","o","r">>,
          <<"b","o","d","y">>,
          <<"s","e","l","f","t","e","x","t">>,
          <<"p","o","s","t","_","i","d">>,
          <<"c","r","e","a","t","e","d","_","u","t","c">>,
          <<"t","i","t","l","e">> } ]

\* st.session_state.user_id of the generated app's session.
gen_user_id == "g1"

NoGenWidget ==
    [mode |-> "Upload", platform |-> "TikTok", file |-> NoFile, extra |-> {},
     c1 |-> FALSE, c2 |-> FALSE, c3 |-> FALSE]

InitGen ==
    /\ gen_widget = NoGenWidget
    /\ gen_shown = "prompt"
    /\ gen_disk = {}

InitApp ==
    /\ InitGen
    /\ session_state = [s \in Sessions |-> [finalized |-> FALSE, donate |-> FALSE]]
    /\ widget = [s \in Sessions |->
                    [platform |-> "TikTok", uploaded |-> NoFile, donate |-> FALSE,
                     delete_ok |-> FALSE, voluntary |-> FALSE, extras |-> {}]]
    /\ shown = [s \in Sessions |-> "prompt"]
    /\ run = [s \in Sessions |-> NoRun]
    /\ drive_folders = {}
    /\ drive_files = {}
    /\ drive_failures = 0

uploadVars == <<session_state, widget, shown, run, drive_folders, drive_files, drive_failures>>

genVars == <<gen_widget, gen_shown, gen_disk>>

appVars == <<uploadVars, genVars>>

(***************************************************************************)
(* The raw keys sanitize_key is tried on: a stem followed by a tail.       *)
(***************************************************************************)
MaxTailLen == 2

TailChars == {":", "a", "S", " ", "1", "U+0130", "U+000A", "U+0663"}

RECURSIVE TailsOfLen(_)
TailsOfLen(n) ==
    IF n = 0 THEN {<<>>}
    ELSE {<<c>> \o t : c \in TailChars, t \in TailsOfLen(n - 1)}

Tails == UNION {TailsOfLen(n) : n \in 0..MaxTailLen}

Stems ==
    { <<>>,
      <<"i","d">>,
      <<"C","h","a","t"," ","H","i","s","t","o","r","y"," ","w","i","t","h"," ">>,
      <<"c","h","a","t"," ","h","i","s","t","o","r","y"," ","w","i","t","h"," ","D","E","N">>,
      <<"c","o","m","m","e","n","t">>,
      <<"C","O","M","M","E","N","T","S">>,
      <<"r","e","p","l","y">>,
      <<"r","e","p","l","i","e","s">>,
      <<"p","o","s","t">>,
      <<"P","o","s","t","s">>,
      <<"s","t","o","r","y">>,
      <<"s","t","o","r","y",":","m","y"," ","d","a","y">>,
      <<"s","t","o","r","i","e","s">> }

RawKeys == {s \o t : s \in Stems, t \in Tails}

sanVars == <<eng_key, eng_sk, eng_sk2>>

engVars == <<eng_obj, eng_pii, eng_keys, eng_red>>

vars == <<eng_call, sanVars, engVars, appVars>>

\* The engine variables before any call.
EngineIdle ==
    /\ eng_obj = Str("")
    /\ eng_pii = {}
    /\ eng_keys = {}
    /\ eng_red = Str("")

InitSanitize ==
    /\ eng_key \in RawKeys
    /\ eng_sk = <<>>
    /\ eng_sk2 = <<>>
    /\ eng_call = "none"
    /\ EngineIdle
    /\ InitApp

\* sanitize_key(k) on the raw key.
SanitizeKey ==
    /\ eng_call = "none"
    /\ eng_sk' = sanitize_key(eng_key)
    /\ eng_call' = "sanitize_key"
    /\ UNCHANGED <<eng_key, eng_sk2, engVars, appVars>>

\* sanitize_key on the key the last call returned.
SanitizeAgain ==
    /\ eng_call = "sanitize_key"
    /\ eng_sk2' = sanitize_key(eng_sk)
    /\ eng_call' = "sanitize_again"
    /\ UNCHANGED <<eng_key, eng_sk, engVars, appVars>>

NextSanitize == SanitizeKey \/ SanitizeAgain

SpecSanitize == InitSanitize /\ [][NextSanitize]_vars

(***************************************************************************)
(* The JSON documents extract_keys and anonymize are tried on: a leaf      *)
(* wrapped up to MaxDepth times in a list or in an object, alone or beside *)
(* one sibling.                                                            *)
(***************************************************************************)
MaxDepth == 2

Leaves == {Str("x"), Num(7), List(<<>>), Dict(<<>>)}

\* "id", "a", "a:" (sanitized to "a" as well), "1", U+0663 (a digit that is
\* not ASCII), "story: day" (sanitized to "Story").
DocKeys ==
    { <<"i","d">>, <<"a">>, <<"a",":">>, <<"1">>, <<"U+0663">>,
      <<"s","t","o","r","y",":"," ","d","a","y">> }

SiblingKey == <<"a",":">>

Sibling == Str("y")

PiiSets ==
    { {},
      {<<"i","d">>},
      {<<"i","d">>, <<"a">>, <<"S","t","o","r","y">>} }

RECURSIVE Depth(_)
Depth(v) ==
    IF IsDict(v)
    THEN IF v[2] = <<>> THEN 0
         ELSE 1 + CHOOSE d \in {Depth(v[2][i][2]) : i \in 1..Len(v[2])} :
                     \A j \in 1..Len(v[2]) : Depth(v[2][j][2]) <= d
    ELSE IF IsList(v)
    THEN IF v[2] = <<>> THEN 0
         ELSE 1 + CHOOSE d \in {Depth(v[2][i]) : i \in 1..Len(v[2])} :
                     \A j \in 1..Len(v[2]) : Depth(v[2][j]) <= d
    ELSE 0

InitEngine ==
    /\ eng_obj \in Leaves
    /\ eng_pii = {}
    /\ eng_keys = {}
    /\ eng_red = Str("")
    /\ eng_call = "none"
    /\ eng_key = <<>>
    /\ eng_sk = <<>>
    /\ eng_sk2 = <<>>
    /\ InitApp

CanGrow == eng_call = "none" /\ Depth(eng_obj) < MaxDepth

\* The document becomes the only element of an array, or follows or
\* precedes a scalar in one.
WrapInList ==
    /\ CanGrow
    /\ eng_obj' \in { List(<<eng_obj>>), List(<<Sibling, eng_obj>>),
                      List(<<eng_obj, Sibling>>) }
    /\ UNCHANGED <<eng_call, eng_pii, eng_keys, eng_red, sanVars, appVars>>

\* The document becomes the value of key k of an object.
WrapInDict ==
    /\ CanGrow
    /\ \E k \in DocKeys : eng_obj' = Dict(<< <<k, eng_obj>> >>)
    /\ UNCHANGED <<eng_call, eng_pii, eng_keys, eng_red, sanVars, appVars>>

\* The same, with a second key before or after it.
WrapInDictWithSibling ==
    /\ CanGrow
    /\ \E k \in DocKeys \ {SiblingKey} :
          eng_obj' \in { Dict(<< <<k, eng_obj>>, <<SiblingKey, Sibling>> >>),
                         Dict(<< <<SiblingKey, Sibling>>, <<k, eng_obj>> >>) }
    /\ UNCHANGED <<eng_call, eng_pii, eng_keys, eng_red, sanVars, appVars>>

\* extract_keys(obj)
ExtractKeys ==
    /\ eng_call = "none"
    /\ eng_keys' = extract_keys(eng_obj)
    /\ eng_call' = "extract_keys"
    /\ UNCHANGED <<eng_obj, eng_pii, eng_red, sanVars, appVars>>

\* anonymize(obj, pii_set)
Anonymize ==
    /\ eng_call = "none"
    /\ \E pii_set \in PiiSets :
          /\ eng_pii' = pii_set
          /\ eng_red' = anonymize(eng_obj, pii_set)
    /\ eng_call' = "anonymize"
    /\ UNCHANGED <<eng_obj, eng_keys, sanVars, appVars>>

NextEngine ==
    \/ WrapInList
    \/ WrapInDict
    \/ WrapInDictWithSibling
    \/ ExtractKeys
    \/ Anonymize

SpecEngine == InitEngine /\ [][NextEngine]_vars

(***************************************************************************)
(* upload_app.py.  Streamlit runs the script from the top on every widget  *)
(* event of a session; a run is one step, except that each Google Drive    *)
(* call of the 'Finalize and upload' branch is a step of its own, since    *)
(* the runs of different sessions are threads of one process and the calls *)
(* go to one Drive.  A run takes no widget event of its own session        *)
(* between lines 166 and 174 (no Streamlit call is made there).            *)
(***************************************************************************)
Idle(s) == run[s].pc = "idle"

\* sorted(extract_keys(data)): the options of 'Additional keys to redact'.
ExtraOptions(file) ==
    IF file # NoFile /\ Parses(file.bytes) THEN extract_keys(Parse(file.bytes)) ELSE {}

\* COMMON_PII.union(PLATFORMS[platform]).union(extras), line 160.
SensitiveSet(w) == COMMON_PII \cup PLATFORMS[w.platform] \cup w.extras

\* Line 159: the two checkboxes that open the preview and the button.
ConsentGivenDeleteOnly(w) == w.delete_ok

ConsentGiven(w) == w.delete_ok /\ w.voluntary

\* Lines 167-171: the folder names from the root down.
FolderNames(s) ==
    << IF session_state[s].donate THEN "research_donations" ELSE "non_donations",
       user_id[s],
       widget[s].platform,
       "redacted" >>

\* One run of the script for session s with the widget values w; clicked
\* tells whether 'Finalize and upload' was the event.  Widgets a run does
\* not reach lose their values.
Rerun(s, w, clicked) ==
    LET finalized == session_state[s].finalized
        uploaded  == w.uploaded # NoFile
        parsed    == uploaded /\ Parses(w.uploaded.bytes)
        consents  == ~finalized /\ parsed
        gate      == consents /\ ConsentGiven(w)
    IN  /\ widget' = [widget EXCEPT ![s] =
                        IF consents THEN w
                        ELSE [w EXCEPT !.donate = FALSE, !.delete_ok = FALSE,
                                       !.voluntary = FALSE, !.extras = {}]]
        /\ session_state' = [session_state EXCEPT ![s].donate =
                                IF consents THEN w.donate ELSE @]
        /\ shown' = [shown EXCEPT ![s] =
                        IF finalized THEN "finalized"
                        ELSE IF ~uploaded THEN "prompt"
                        ELSE IF ~parsed THEN "error"
                        ELSE IF gate THEN "ready"
                        ELSE "consents"]
        /\ run' = [run EXCEPT ![s] =
                      IF gate /\ clicked
                      THEN [pc |-> "list", level |-> 1, parent |-> ROOT_FOLDER_ID]
                      ELSE NoRun]
        /\ UNCHANGED <<drive_folders, drive_files, drive_failures>>

\* The sidebar selectbox is set to p.  The uploader's label names the
\* platform, so the uploader of another platform is another widget and
\* holds no file.
SelectPlatform(s, p) ==
    /\ Idle(s)
    /\ p # widget[s].platform
    /\ Rerun(s, [widget[s] EXCEPT !.platform = p, !.uploaded = NoFile], FALSE)
    /\ UNCHANGED <<eng_call, sanVars, engVars, genVars>>

\* st.file_uploader: file f is chosen.  The multiselect keeps its choice
\* only while its options stay the same.
UploadFile(s, f) ==
    /\ Idle(s)
    /\ f # widget[s].uploaded
    /\ Rerun(s, [widget[s] EXCEPT
                    !.uploaded = f,
                    !.extras = IF ExtraOptions(f) = ExtraOptions(widget[s].uploaded)
                               THEN @ ELSE {}],
             FALSE)
    /\ UNCHANGED <<eng_call, sanVars, engVars, genVars>>

\* st.file_uploader: the file is removed.
RemoveFile(s) ==
    /\ Idle(s)
    /\ widget[s].uploaded # NoFile
    /\ Rerun(s, [widget[s] EXCEPT !.uploaded = NoFile], FALSE)
    /\ UNCHANGED <<eng_call, sanVars, engVars, genVars>>

ConsentsShown(s) == shown[s] \in {"consents", "ready"}

\* Line 154, the optional donation checkbox.
ToggleDonate(s) ==
    /\ Idle(s)
    /\ ConsentsShown(s)
    /\ Rerun(s, [widget[s] EXCEPT !.donate = ~@], FALSE)
    /\ UNCHANGED <<eng_call, sanVars, engVars, genVars>>

\* Line 155.
ToggleDeleteOk(s) ==
    /\ Idle(s)
    /\ ConsentsShown(s)
    /\ Rerun(s, [widget[s] EXCEPT !.delete_ok = ~@], FALSE)
    /\ UNCHANGED <<eng_call, sanVars, engVars, genVars>>

\* Line 156.
ToggleVoluntary(s) ==
    /\ Idle(s)
    /\ ConsentsShown(s)
    /\ Rerun(s, [widget[s] EXCEPT !.voluntary = ~@], FALSE)
    /\ UNCHANGED <<eng_call, sanVars, engVars, genVars>>

\* Line 157, 'Additional keys to redact' is set to extras.
SelectExtras(s, extras) ==
    /\ Idle(s)
    /\ ConsentsShown(s)
    /\ extras \subseteq ExtraOptions(widget[s].uploaded)
    /\ extras # widget[s].extras
    /\ Rerun(s, [widget[s] EXCEPT !.extras = extras], FALSE)
    /\ UNCHANGED <<eng_call, sanVars, engVars, genVars>>

\* Line 166, the button of the page the last run rendered.
ClickFinalize(s) ==
    /\ Idle(s)
    /\ shown[s] = "ready"
    /\ Rerun(s, widget[s], TRUE)
    /\ UNCHANGED <<eng_call, sanVars, engVars, genVars>>

\* get_or_create_folder returned folder f: on to the next level, or to the
\* upload once 'redacted' is there.
Advance(s, f) ==
    run' = [run EXCEPT ![s] =
               IF run[s].level = Len(FolderNames(s))
               THEN [pc |-> "upload", level |-> @.level, parent |-> f]
               ELSE [pc |-> "list", level |-> @.level + 1, parent |-> f]]

FoldersNamed(name, parent_id) ==
    {f \in drive_folders : /\ Len(f) = Len(parent_id) + 1
                           /\ FolderParent(f) = parent_id
                           /\ FolderName(f) = name}

\* get_or_create_folder, lines 66-70: the query, and the return of files[0]
\* (whichever folder Drive lists first) when it found any.
ListFolders(s) ==
    /\ run[s].pc = "list"
    /\ LET files == FoldersNamed(FolderNames(s)[run[s].level], run[s].parent)
       IN  IF files # {}
           THEN \E f \in files : Advance(s, f)
           ELSE run' = [run EXCEPT ![s].pc = "create"]
    /\ UNCHANGED <<session_state, widget, shown, drive_folders, drive_files,
                   drive_failures, eng_call, sanVars, engVars, genVars>>

\* get_or_create_folder, lines 71-72: the folder is created.
CreateFolder(s) ==
    /\ run[s].pc = "create"
    /\ LET f == Append(run[s].parent, <<FolderNames(s)[run[s].level], s>>)
       IN  /\ drive_folders' = drive_folders \cup {f}
           /\ Advance(s, f)
    /\ UNCHANGED <<session_state, widget, shown, drive_files, drive_failures,
                   eng_call, sanVars, engVars, genVars>>

\* Lines 160, 163, 172-175: the redacted document is written to Drive and the
\* session is marked finalized.  (at: the widget values of the run.)
CreateFileFlagUnset(s) ==
    /\ run[s].pc = "upload"
    /\ LET w   == widget[s]
           red == anonymize(Parse(w.uploaded.bytes), SensitiveSet(w))
       IN  drive_files' = drive_files \cup
              { [parent  |-> run[s].parent,
                 name    |-> <<user_id[s], w.platform, w.uploaded.name>>,
                 content |-> Dumps(red),
                 by      |-> s,
                 at      |-> w] }
    /\ run' = [run EXCEPT ![s] = NoRun]
    /\ UNCHANGED <<session_state, widget, shown, drive_folders, drive_failures,
                   eng_call, sanVars, engVars, genVars>>

CreateFile(s) ==
    /\ run[s].pc = "upload"
    /\ LET w   == widget[s]
           red == anonymize(Parse(w.uploaded.bytes), SensitiveSet(w))
       IN  drive_files' = drive_files \cup
              { [parent  |-> run[s].parent,
                 name    |-> <<user_id[s], w.platform, w.uploaded.name>>,
                 content |-> Dumps(red),
                 by      |-> s,
                 at      |-> w] }
    /\ session_state' = [session_state EXCEPT ![s].finalized = TRUE]
    /\ run' = [run EXCEPT ![s] = NoRun]
    /\ UNCHANGED <<widget, shown, drive_folders, drive_failures,
                   eng_call, sanVars, engVars, genVars>>

\* A Drive call raises (network, quota): the run ends with the exception.
DriveError(s) ==
    /\ run[s].pc # "idle"
    /\ drive_failures < MaxDriveFailures
    /\ drive_failures' = drive_failures + 1
    /\ run' = [run EXCEPT ![s] = NoRun]
    /\ UNCHANGED <<session_state, widget, shown, drive_folders, drive_files,
                   eng_call, sanVars, engVars, genVars>>

Init ==
    /\ InitApp
    /\ EngineIdle
    /\ eng_call = "none"
    /\ eng_key = <<>>
    /\ eng_sk = <<>>
    /\ eng_sk2 = <<>>

\* One participant at the form, every widget in use, Drive calls that may
\* raise.
Participant == "s1"

Next ==
    \/ \E p \in PlatformsTried : SelectPlatform(Participant, p)
    \/ \E f \in UploadFiles : UploadFile(Participant, f)
    \/ RemoveFile(Participant)
    \/ ToggleDonate(Participant)
    \/ ToggleDeleteOk(Participant)
    \/ ToggleVoluntary(Participant)
    \/ \E extras \in SUBSET ExtraOptions(widget[Participant].uploaded) :
          /\ Cardinality(extras) <= MaxExtras
          /\ SelectExtras(Participant, extras)
    \/ ClickFinalize(Participant)
    \/ ListFolders(Participant)
    \/ CreateFolder(Participant)
    \/ CreateFile(Participant)
    \/ DriveError(Participant)

Spec == Init /\ [][Next]_vars

\* Several participants, each in a session of their own, who upload the same
\* export for the default platform, tick the checkboxes and finalize while
\* the others do the same.
SharedExport == CHOOSE f \in UploadFiles : f.name = "a.json"

NextConcurrent ==
    \E s \in Sessions :
        \/ UploadFile(s, SharedExport)
        \/ ToggleDonate(s)
        \/ ToggleDeleteOk(s)
        \/ ToggleVoluntary(s)
        \/ ClickFinalize(s)
        \/ ListFolders(s)
        \/ CreateFolder(s)
        \/ CreateFile(s)

SpecConcurrent == Init /\ [][NextConcurrent]_vars

(***************************************************************************)
(* generate_upload_app.py, APP_CODE: the generated app in Upload and Admin *)
(* mode.  It keeps the uploads on the local disk, under uploads/.  A run   *)
(* of the script is one step; the participant has one file in the          *)
(* uploader at a time.                                                     *)
(***************************************************************************)
\* open(path, 'w').write(content): the file at the path is replaced.
WriteFile(disk, path, source, content, consented) ==
    {e \in disk : e.path # path} \cup
        { [path |-> path, source |-> source, content |-> content,
           consented |-> consented] }

\* Lines 118-124 of the generated app: base_pii.union(extra).
GenSensitiveSet(w) == COMMON \cup PLATFORM[w.platform] \cup w.extra

\* Line 138: c1 and c2 and c3.
GenConsentGiven(w) == w.c1 /\ w.c2 /\ w.c3

\* One run of the generated script with the widget values w; clicked tells
\* whether 'Finalize and send' was the event.  In Admin mode no widget of
\* the Upload branch is reached, and the files under uploads/ are only read.
GenRerun(w, clicked) ==
    LET uploaded  == w.file # NoFile
        parsed    == uploaded /\ Parses(w.file.bytes)
        consented == GenConsentGiven(w)
        raw_path  == <<"uploads", gen_user_id, w.platform, w.file.name>>
        red_path  == <<"uploads", gen_user_id, w.platform, "redacted",
                       <<gen_user_id, w.platform, w.file.name, ".json">> >>
        raw_saved == WriteFile(gen_disk, raw_path, w.file.bytes,
                               <<"raw", w.file.bytes>>, consented)
        red       == anonymize(Parse(w.file.bytes), GenSensitiveSet(w))
    IN  IF w.mode = "Admin"
        THEN /\ gen_widget' = [NoGenWidget EXCEPT !.mode = "Admin"]
             /\ gen_shown' = "admin"
             /\ UNCHANGED gen_disk
        ELSE /\ gen_widget' =
                   IF parsed THEN w
                   ELSE [w EXCEPT !.extra = {}, !.c1 = FALSE, !.c2 = FALSE,
                                  !.c3 = FALSE]
             /\ gen_shown' =
                   IF ~uploaded THEN "prompt"
                   ELSE IF ~parsed THEN "error"
                   ELSE IF ~consented THEN "consents"
                   ELSE IF clicked THEN "finalized"
                   ELSE "ready"
             /\ gen_disk' =
                   IF ~uploaded THEN gen_disk
                   ELSE IF ~parsed THEN raw_saved
                   ELSE WriteFile(raw_saved, red_path, w.file.bytes,
                                  Dumps(red), consented)

\* The sidebar radio 'Mode'.
GenSelectMode ==
    /\ GenRerun([gen_widget EXCEPT
                    !.mode = IF @ = "Upload" THEN "Admin" ELSE "Upload"], FALSE)
    /\ UNCHANGED <<eng_call, sanVars, engVars, uploadVars>>

\* 'Select Platform'; the uploader's label names the platform.
GenSelectPlatform ==
    /\ gen_widget.mode = "Upload"
    /\ \E p \in PlatformsTried \ {gen_widget.platform} :
          GenRerun([gen_widget EXCEPT !.platform = p, !.file = NoFile], FALSE)
    /\ UNCHANGED <<eng_call, sanVars, engVars, uploadVars>>

\* The files tried on the generated app: one that parses, one that does not.
GenUploadFiles == {f \in UploadFiles : f.name \in {"a.json", "c.json"}}

\* st.file_uploader of line 107: a file is chosen.
GenUploadFile ==
    /\ gen_widget.mode = "Upload"
    /\ \E f \in GenUploadFiles \ {gen_widget.file} :
          GenRerun([gen_widget EXCEPT
                       !.file = f,
                       !.extra = IF ExtraOptions(f) = ExtraOptions(gen_widget.file)
                                 THEN @ ELSE {}],
                   FALSE)
    /\ UNCHANGED <<eng_call, sanVars, engVars, uploadVars>>

\* st.file_uploader: the file is removed.
GenRemoveFile ==
    /\ gen_widget.mode = "Upload"
    /\ gen_widget.file # NoFile
    /\ GenRerun([gen_widget EXCEPT !.file = NoFile], FALSE)
    /\ UNCHANGED <<eng_call, sanVars, engVars, uploadVars>>

GenConsentsShown == gen_shown \in {"consents", "ready", "finalized"}

\* 'Extra keys to redact', line 123.
GenSelectExtra ==
    /\ GenConsentsShown
    /\ \E extra \in SUBSET ExtraOptions(gen_widget.file) :
          /\ Cardinality(extra) <= MaxExtras
          /\ extra # gen_widget.extra
          /\ GenRerun([gen_widget EXCEPT !.extra = extra], FALSE)
    /\ UNCHANGED <<eng_call, sanVars, engVars, uploadVars>>

\* Lines 135-137: one of the three checkboxes is toggled.
GenToggleC1 ==
    /\ GenConsentsShown
    /\ GenRerun([gen_widget EXCEPT !.c1 = ~@], FALSE)
    /\ UNCHANGED <<eng_call, sanVars, engVars, uploadVars>>

GenToggleC2 ==
    /\ GenConsentsShown
    /\ GenRerun([gen_widget EXCEPT !.c2 = ~@], FALSE)
    /\ UNCHANGED <<eng_call, sanVars, engVars, uploadVars>>

GenToggleC3 ==
    /\ GenConsentsShown
    /\ GenRerun([gen_widget EXCEPT !.c3 = ~@], FALSE)
    /\ UNCHANGED <<eng_call, sanVars, engVars, uploadVars>>

\* Line 140, 'Finalize and send': the run only shows the success message.
GenClickFinalize ==
    /\ gen_shown \in {"ready", "finalized"}
    /\ GenRerun(gen_widget, TRUE)
    /\ UNCHANGED <<eng_call, sanVars, engVars, uploadVars>>

NextGen ==
    \/ GenSelectMode
    \/ GenSelectPlatform
    \/ GenUploadFile
    \/ GenRemoveFile
    \/ GenSelectExtra
    \/ GenToggleC1
    \/ GenToggleC2
    \/ GenToggleC3
    \/ GenClickFinalize

SpecGen == Init /\ [][NextGen]_vars

(***************************************************************************)
(* Claims about sanitize_key, checked under SpecSanitize.                  *)
(***************************************************************************)
Sanitized == eng_call \in {"sanitize_key", "sanitize_again"}

NoPatternMatches(k) == \A i \in 1..Len(KEY_PATTERNS) : ~re_match(KEY_PATTERNS[i], k)

RECURSIVE Colons(_)
Colons(n) == IF n = 0 THEN <<>> ELSE <<":">> \o Colons(n - 1)

EndsWithColon(s) == Len(s) > 0 /\ s[Len(s)] = ":"

\* C5, as claimed: a raw key that matches no key pattern loses at most one
\* trailing colon: a key ending in two or more colons keeps all but the last.
C5_AtMostOneColonRemoved ==
    (Sanitized /\ NoPatternMatches(eng_key)) =>
        eng_sk = (IF EndsWithColon(eng_key)
                  THEN SubSeq(eng_key, 1, Len(eng_key) - 1) ELSE eng_key)

\* C5, amended: a raw key that matches no key pattern is returned with all of
\* its trailing colons removed and no other change (no case change): the
\* result does not end in a colon and the raw key is the result followed by
\* colons only.
C5_AllTrailingColonsRemoved ==
    (Sanitized /\ NoPatternMatches(eng_key)) =>
        /\ ~EndsWithColon(eng_sk)
        /\ \E n \in 0..Len(eng_key) : eng_key = eng_sk \o Colons(n)

C5_Witness ==
    /\ eng_call = "sanitize_key"
    /\ NoPatternMatches(eng_key)
    /\ Len(eng_key) >= 3
    /\ eng_key[Len(eng_key)] = ":"
    /\ eng_key[Len(eng_key) - 1] = ":"
    /\ eng_sk = SubSeq(eng_key, 1, Len(eng_key) - 2)

ChatHistoryWith == <<"C","h","a","t"," ","H","i","s","t","o","r","y"," ","w","i","t","h"," ">>

ColonWords ==
    { <<"c","o","m","m","e","n","t">>, <<"c","o","m","m","e","n","t","s">>,
      <<"r","e","p","l","y">>, <<"r","e","p","l","i","e","s">>,
      <<"p","o","s","t">>, <<"p","o","s","t","s">>,
      <<"s","t","o","r","y">> }

\* The words the code's patterns accept before the colon.
ColonWordsOfCode ==
    { <<"c","o","m","m","e","n","t">>, <<"c","o","m","m","e","n","t","s">>,
      <<"r","e","p","l","i","e">>, <<"r","e","p","l","i","e","s">>,
      <<"p","o","s","t">>, <<"p","o","s","t","s">>,
      <<"s","t","o","r","y">> }

\* k is the word w, in any case, alone or followed by a colon and any text.
IsWordOptionalColon(w, k) ==
    /\ PrefixIgnoreCase(w, k)
    /\ (Len(k) = Len(w) \/ k[Len(w) + 1] = ":")

\* k is the word w, in any case, followed by a colon and any text.
IsWordColon(w, k) ==
    /\ PrefixIgnoreCase(w, k)
    /\ Len(k) > Len(w)
    /\ k[Len(w) + 1] = ":"

BeforeFirstColonTitled(k) == title(split_colon(k))

\* C6, as claimed: a key that is "Chat History with " and any text, or one of
\* comment(s), reply/replies, post(s), story with or without a colon and
\* further text, is sanitized to its part before the first colon in title
\* case; bare "comments", "posts", "story" become "Comments", "Posts", "Story".
C6_PatternRuleOptionalColon ==
    (/\ Sanitized
     /\ \/ (PrefixIgnoreCase(ChatHistoryWith, eng_key) /\ Len(eng_key) > Len(ChatHistoryWith))
        \/ \E w \in ColonWords : IsWordOptionalColon(w, eng_key))
    => eng_sk = BeforeFirstColonTitled(eng_key)

\* C6, amended: a key that is "Chat History with " followed by at least one
\* code point that is not a line feed, or one of comment(s), replie(s),
\* post(s), story immediately followed by a colon, is sanitized to its part
\* before the first colon in title case; a key that is one of these words
\* with no colon after it (bare "comments", "posts", "story") is returned
\* unchanged.
C6_PatternRuleColonRequired ==
    /\ (/\ Sanitized
        /\ \/ /\ PrefixIgnoreCase(ChatHistoryWith, eng_key)
              /\ Len(eng_key) > Len(ChatHistoryWith)
              /\ eng_key[Len(ChatHistoryWith) + 1] # "U+000A"
           \/ \E w \in ColonWordsOfCode : IsWordColon(w, eng_key))
       => eng_sk = BeforeFirstColonTitled(eng_key)
    /\ (/\ Sanitized
        /\ \E w \in ColonWordsOfCode \cup ColonWords :
              PrefixIgnoreCase(w, eng_key) /\ Len(eng_key) = Len(w))
       => eng_sk = eng_key

C6_Witness ==
    /\ eng_call = "sanitize_key"
    /\ IsWordColon(<<"c","o","m","m","e","n","t","s">>, eng_key)
    /\ eng_key # eng_sk
    /\ eng_sk = <<"C","o","m","m","e","n","t","s">>

\* The raw keys whose sanitized form sanitize_key changes again.
NonIdempotentKeys ==
    {k \in RawKeys : sanitize_key(sanitize_key(k)) # sanitize_key(k)}

\* C10: key sanitization is not idempotent: some raw key k has
\* sanitize_key(sanitize_key(k)) # sanitize_key(k), and sanitizing the result
\* of sanitize_key(k) for such a key returns a different key.
C10_NotIdempotent ==
    /\ NonIdempotentKeys # {}
    /\ (eng_call = "sanitize_again" /\ eng_key \in NonIdempotentKeys)
           => eng_sk2 # eng_sk

C10_Witness ==
    /\ eng_call = "sanitize_again"
    /\ eng_sk2 # eng_sk

(***************************************************************************)
(* Claims about anonymize and extract_keys, checked under SpecEngine.      *)
(***************************************************************************)
HasKey(d, k) == \E i \in 1..Len(d[2]) : d[2][i][1] = k

\* d[k] of an object that holds k.
Lookup(d, k) == d[2][CHOOSE i \in 1..Len(d[2]) : d[2][i][1] = k][2]

SanitizedKeysOf(d) == {sanitize_key(d[2][i][1]) : i \in 1..Len(d[2])}

\* The item of object d whose key is the last to sanitize to sk.
LastItemFor(d, sk) ==
    CHOOSE i \in 1..Len(d[2]) :
        /\ sanitize_key(d[2][i][1]) = sk
        /\ \A j \in (i + 1)..Len(d[2]) : sanitize_key(d[2][j][1]) # sk

RECURSIVE RedactedThroughout(_, _, _)
\* Every object of input v that is not below a redacted key has each of
\* its sensitive keys mapped to "REDACTED" in the matching object of out.
RedactedThroughout(v, out, S) ==
    IF IsDict(v)
    THEN /\ IsDict(out)
         /\ \A i \in 1..Len(v[2]) :
               LET sk == sanitize_key(v[2][i][1]) IN
               /\ HasKey(out, sk)
               /\ sk \in S => Lookup(out, sk) = REDACTED
               /\ (sk \notin S /\ i = LastItemFor(v, sk))
                     => RedactedThroughout(v[2][i][2], Lookup(out, sk), S)
    ELSE IF IsList(v)
    THEN /\ IsList(out)
         /\ Len(out[2]) = Len(v[2])
         /\ \A i \in 1..Len(v[2]) : RedactedThroughout(v[2][i], out[2][i], S)
    ELSE TRUE

RECURSIVE NoSensitiveValueLeft(_, _)
\* No object anywhere in out holds a key of S with a value other than
\* "REDACTED".
NoSensitiveValueLeft(out, S) ==
    IF IsDict(out)
    THEN \A i \in 1..Len(out[2]) :
            IF out[2][i][1] \in S
            THEN out[2][i][2] = REDACTED
            ELSE NoSensitiveValueLeft(out[2][i][2], S)
    ELSE IF IsList(out)
    THEN \A i \in 1..Len(out[2]) : NoSensitiveValueLeft(out[2][i], S)
    ELSE TRUE

\* C1: redaction completeness: in anonymize(v, S) every object at every
\* nesting level that is not below a redacted key maps each key k with
\* sanitize_key(k) in S to "REDACTED" under sanitize_key(k), whatever the
\* value was, and no object of the output holds a key of S with another value.
C1_RedactionComplete ==
    eng_call = "anonymize" =>
        /\ RedactedThroughout(eng_obj, eng_red, eng_pii)
        /\ NoSensitiveValueLeft(eng_red, eng_pii)

\* A nested object under a key that is not sensitive holds a sensitive key
\* whose value was a container, and it was redacted.
C1_Witness ==
    /\ eng_call = "anonymize"
    /\ IsDict(eng_obj)
    /\ \E i \in 1..Len(eng_obj[2]) :
          LET sk == sanitize_key(eng_obj[2][i][1])
              inner == eng_obj[2][i][2]
          IN  /\ sk \notin eng_pii
              /\ IsDict(inner)
              /\ \E j \in 1..Len(inner[2]) :
                    /\ sanitize_key(inner[2][j][1]) \in eng_pii
                    /\ (IsDict(inner[2][j][2]) \/ IsList(inner[2][j][2]))
                    /\ Lookup(Lookup(eng_red, sk), sanitize_key(inner[2][j][1])) = REDACTED

\* C2, as claimed: for every key k of an object o with sanitize_key(k) not in
\* S, anonymize(o, S) holds anonymize(o[k], S) under sanitize_key(k), also when
\* two raw keys of o sanitize to the same string.
C2_PassthroughEveryKey ==
    (eng_call = "anonymize" /\ IsDict(eng_obj)) =>
        \A i \in 1..Len(eng_obj[2]) :
            LET sk == sanitize_key(eng_obj[2][i][1]) IN
            sk \notin eng_pii =>
                /\ HasKey(eng_red, sk)
                /\ Lookup(eng_red, sk) = anonymize(eng_obj[2][i][2], eng_pii)

RECURSIVE ShapePreserved(_, _, _)
\* out has the container shape of v: an object with the sanitized keys of v,
\* each once; an array of the same length, element by element; the scalar.
ShapePreserved(v, out, S) ==
    IF IsDict(v)
    THEN /\ IsDict(out)
         /\ Len(out[2]) = Cardinality(SanitizedKeysOf(v))
         /\ {out[2][j][1] : j \in 1..Len(out[2])} = SanitizedKeysOf(v)
         /\ \A j \in 1..Len(out[2]) :
               out[2][j][1] \notin S =>
                  ShapePreserved(v[2][LastItemFor(v, out[2][j][1])][2], out[2][j][2], S)
    ELSE IF IsList(v)
    THEN /\ IsList(out)
         /\ Len(out[2]) = Len(v[2])
         /\ \A i \in 1..Len(v[2]) : ShapePreserved(v[2][i], out[2][i], S)
    ELSE out = v

\* C3: structure preservation: anonymize(v, S) is an object with key set
\* {sanitize_key(k)} and as many keys as there are distinct sanitized keys
\* when v is an object, an array of the same length transformed position by
\* position when v is an array, v itself when v is a scalar, and the same
\* holds for every nested container that is not under a sensitive key.
C3_StructurePreserved ==
    eng_call = "anonymize" => ShapePreserved(eng_obj, eng_red, eng_pii)

\* An array that holds an object whose two raw keys sanitize to one key.
C3_Witness ==
    /\ eng_call = "anonymize"
    /\ IsList(eng_obj)
    /\ \E i \in 1..Len(eng_obj[2]) :
          /\ IsDict(eng_obj[2][i])
          /\ Len(eng_obj[2][i][2]) = 2
          /\ Len(eng_red[2][i][2]) = 1

RECURSIVE AllRawKeys(_)
\* The raw keys of every object occurring anywhere in v.
AllRawKeys(v) ==
    IF IsDict(v)
    THEN {v[2][i][1] : i \in 1..Len(v[2])}
         \cup UNION {AllRawKeys(v[2][i][2]) : i \in 1..Len(v[2])}
    ELSE IF IsList(v)
    THEN UNION {AllRawKeys(v[2][i]) : i \in 1..Len(v[2])}
    ELSE {}

AsciiDigits == {"0","1","2","3","4","5","6","7","8","9"}

\* Unicode decimal digits: the ASCII ones and, of the code points of the
\* model, U+0663.
UnicodeDigits == AsciiDigits \cup {"U+0663"}

ConsistsOf(sk, digits) == sk # <<>> /\ \A i \in 1..Len(sk) : sk[i] \in digits

\* C4, as claimed: extract_keys(v) is exactly the set of sanitized keys, over
\* every key of every object anywhere in v, that do not consist entirely of
\* ASCII digits.
C4_AllButAsciiNumericKeys ==
    eng_call = "extract_keys" =>
        eng_keys = {sk \in {sanitize_key(k) : k \in AllRawKeys(eng_obj)} :
                       ~ConsistsOf(sk, AsciiDigits)}

\* C4, amended: extract_keys(v) is exactly the set of sanitized keys, over
\* every key of every object anywhere in v (also below excluded numeric keys),
\* that are not a non-empty string of Unicode digits (str.isdigit).
C4_AllButNumericKeys ==
    eng_call = "extract_keys" =>
        eng_keys = {sk \in {sanitize_key(k) : k \in AllRawKeys(eng_obj)} :
                       ~ConsistsOf(sk, UnicodeDigits)}

\* A key below an excluded numeric key was extracted.
C4_Witness ==
    /\ eng_call = "extract_keys"
    /\ IsDict(eng_obj)
    /\ \E i \in 1..Len(eng_obj[2]) :
          /\ eng_obj[2][i][1] = <<"1">>
          /\ IsDict(eng_obj[2][i][2])
          /\ <<"i","d">> \in AllRawKeys(eng_obj[2][i][2])
    /\ <<"i","d">> \in eng_keys
    /\ <<"1">> \notin eng_keys

(***************************************************************************)
(* Claims about the upload flow, the storage and the folders.              *)
(***************************************************************************)
\* The runs of upload_app.py that stand between the click on 'Finalize and
\* upload' and the end of the Drive calls.
Uploading(s) == run[s].pc # "idle"

\* C7, as the specification words it: the redacted document is written to
\* Drive only in a state where every consent checkbox shown to the user is
\* checked, the donation checkbox of line 154 included.
C7_EveryCheckboxChecked ==
    /\ \A s \in Sessions :
          Uploading(s) =>
             widget[s].donate /\ widget[s].delete_ok /\ widget[s].voluntary
    /\ \A f \in drive_files :
          f.at.donate /\ f.at.delete_ok /\ f.at.voluntary

\* C7, as the code has it: the Drive calls of 'Finalize and upload' run, and
\* the redacted document is written, only in a state where the two mandatory
\* checkboxes (deletion understood, participation voluntary) are checked;
\* the donation checkbox is optional and only selects the group folder.
C7_MandatoryCheckboxesChecked ==
    /\ \A s \in Sessions :
          Uploading(s) => widget[s].delete_ok /\ widget[s].voluntary
    /\ \A f \in drive_files :
          /\ f.at.delete_ok /\ f.at.voluntary
          /\ f.parent[1][1] = IF f.at.donate THEN "research_donations"
                              ELSE "non_donations"

\* A document was written to Drive with the two mandatory checkboxes checked
\* and the donation checkbox unchecked.
C7_Witness ==
    \E f \in drive_files :
        /\ f.at.delete_ok /\ f.at.voluntary /\ ~f.at.donate
        /\ f.parent[1][1] = "non_donations"

\* The sensitive sets the generated app can have used on a document: COMMON,
\* the platform's set and any choice of extra keys.
GenSensitiveSets(platform, data) ==
    {COMMON \cup PLATFORM[platform] \cup extra : extra \in SUBSET extract_keys(data)}

\* The same for upload_app.py.
SensitiveSets(platform, data) ==
    {COMMON_PII \cup PLATFORMS[platform] \cup extras : extras \in SUBSET extract_keys(data)}

\* C8: in either app, every piece of upload-derived content in persistent
\* storage (a Drive file, a file under uploads/) is the serialization of
\* anonymize applied to the parsed upload with a sensitive set that holds the
\* common set, the platform's set and the extra keys, and was written with
\* the consent gate passed; the raw upload is never stored.
C8_OnlyRedactedStoredAfterConsent ==
    /\ \A f \in drive_files :
          /\ ConsentGiven(f.at)
          /\ \E S \in SensitiveSets(f.at.platform, Parse(f.at.uploaded.bytes)) :
                f.content = Dumps(anonymize(Parse(f.at.uploaded.bytes), S))
    /\ \A e \in gen_disk :
          /\ e.consented
          /\ Parses(e.source)
          /\ \E S \in GenSensitiveSets(e.path[3], Parse(e.source)) :
                e.content = Dumps(anonymize(Parse(e.source), S))

\* C9: at most one folder exists for each (parent, name) pair, whatever
\* get_or_create_folder calls the sessions have issued.
C9_OneFolderPerParentAndName ==
    \A f, g \in drive_folders :
        (FolderParent(f) = FolderParent(g) /\ FolderName(f) = FolderName(g))
            => f = g

(***************************************************************************)
(* Claims about the finalized flag of a session.                           *)
(***************************************************************************)
\* The files session s has written to Drive.
FilesBy(s) == {f \in drive_files : f.by = s}

\* A step is a rerun of session s's script when it renders the page anew or
\* starts the Drive calls.
IsRerunOf(s) ==
    \/ widget'[s] # widget[s]
    \/ shown'[s] # shown[s]
    \/ (run[s].pc = "idle" /\ run'[s].pc # "idle")

\* The state part of C11: a session is finalized exactly when it has written
\* its file, it has written at most one, and a finalized session makes no
\* Drive call.
C11_FinalizedIffWritten ==
    \A s \in Sessions :
        /\ session_state[s].finalized <=> FilesBy(s) # {}
        /\ Cardinality(FilesBy(s)) <= 1
        /\ session_state[s].finalized => run[s].pc = "idle"

\* The step part of C11: the flag, once true, stays true; a rerun of a
\* finalized session skips the finalization block (no parsing, no
\* anonymization, no Drive call) and leaves the folders and files as they
\* are; a Drive call that raises leaves the session not finalized.
C11_FinalizedStep ==
    \A s \in Sessions :
        /\ session_state[s].finalized =>
              /\ session_state'[s].finalized
              /\ FilesBy(s)' = FilesBy(s)
              /\ run'[s] = NoRun
              /\ IsRerunOf(s) =>
                    /\ shown'[s] = "finalized"
                    /\ drive_folders' = drive_folders
                    /\ drive_files' = drive_files
        /\ (drive_failures' # drive_failures /\ run[s].pc # "idle") =>
              /\ ~session_state'[s].finalized
              /\ FilesBy(s)' = {}
              /\ run'[s] = NoRun

\* C11: at most one upload per session.  Once 'Finalize and upload' has
\* written the redacted file to Drive the session's finalized flag is true
\* and stays true, and no later rerun parses, anonymizes, creates a folder
\* or writes to Drive; the flag becomes true only with the write, so a Drive
\* call that raises leaves the session not finalized.
C11_AtMostOneUploadPerSession ==
    /\ []C11_FinalizedIffWritten
    /\ [][C11_FinalizedStep]_vars

\* A session whose first attempt ended in a Drive error has finalized with
\* one file written, and has since put another file into the uploader: the
\* rerun showed the finalized page and wrote nothing.
C11_Witness ==
    \E s \in Sessions :
        /\ session_state[s].finalized
        /\ drive_failures > 0
        /\ shown[s] = "finalized"
        /\ widget[s].uploaded # NoFile
        /\ Parses(widget[s].uploaded.bytes)
        /\ \E f \in FilesBy(s) : f.at.uploaded # widget[s].uploaded
        /\ Cardinality(FilesBy(s)) = 1

=============================================================================
